---- MODULE Spec2Model ----
(***************************************************************************)
(* libqif, lp::LinearProgram<rat>: the incremental problem model, the      *)
(* dense (A, b, c, sense) compatibility form, to_canonical_form(), the     *)
(* two-phase revised simplex() and original_x(), as driven by solve().     *)
(*                                                                         *)
(* Indices (Var, Con, entries of basic, var_transform) are the 0-based     *)
(* values of the C++ code; a vector is a sequence read with At(s, i).      *)
(***************************************************************************)
EXTENDS Integers, Sequences, FiniteSets, TLC

(***************************************************************************)
(* Bounds of the model                                                     *)
(***************************************************************************)
MaxVar == 1
MaxCon == 1
MaxEntries == 1
MaxDenseRows == 1
MaxAbsCoeff == 1

(***************************************************************************)
(* rat: exact rationals <<num, den>>, den > 0, in lowest terms.            *)
(* infinity<rat>() is the extended value <<1, 0>>.                         *)
(***************************************************************************)
Abs(n) == IF n < 0 THEN -n ELSE n

Sgn(n) == IF n < 0 THEN -1 ELSE IF n = 0 THEN 0 ELSE 1

RECURSIVE GCD(_, _)
GCD(a, b) == IF b = 0 THEN a ELSE GCD(b, a % b)

Norm(n, d) ==
    IF d = 0 THEN <<Sgn(n), 0>>
    ELSE LET g == GCD(Abs(n), Abs(d))
         IN  <<Sgn(d) * Sgn(n) * (Abs(n) \div g), Abs(d) \div g>>

R(n) == <<n, 1>>

Q(n, d) == Norm(n, d)

inf == <<1, 0>>

RNeg(a) == <<-a[1], a[2]>>

RAdd(a, b) ==
    IF a[2] = 0 /\ b[2] = 0 THEN (IF a[1] = b[1] THEN a ELSE <<0, 0>>)
    ELSE IF a[2] = 0 THEN a
    ELSE IF b[2] = 0 THEN b
    ELSE Norm(a[1] * b[2] + b[1] * a[2], a[2] * b[2])

RSub(a, b) == RAdd(a, RNeg(b))

RMul(a, b) == Norm(a[1] * b[1], a[2] * b[2])

RDiv(a, b) == Norm(a[1] * b[2] * Sgn(b[1]), a[2] * Abs(b[1]))

less_than(a, b) ==
    IF a[2] = 0 /\ b[2] = 0 THEN a[1] < b[1]
    ELSE a[1] * b[2] < b[1] * a[2]

RLeq(a, b) == a = b \/ less_than(a, b)

IsFinite(a) == a[2] # 0

At(s, i) == s[i + 1]

SetAt(s, i, v) == [s EXCEPT ![i + 1] = v]

(***************************************************************************)
(* State                                                                   *)
(***************************************************************************)
VARIABLES
    this,       \* the caller's LinearProgram object
    lp,         \* the clone solve() works on (to_canonical_form, simplex)
    lpv,        \* the clone as it stood at the end of the loop over the variables
    sx,         \* locals of simplex(): basic, is_basic, Binv, cB, phase_one
    pc,         \* idle, loop (in a simplex iteration, pricing done), done,
                \* glpk_created, glpk_loaded, glpk_solved (inside glpk())
    ret,        \* outcome of the last call
    glp,        \* the GLPK side of glpk(): problems alive, environment, codes
    hist        \* the model as solve() was entered; whether a solve() returned true
                \* whether a pivot of this simplex() had ratio 0, and the
                \* number of times its loop went round

vars == <<this, lp, lpv, sx, pc, ret, glp, hist>>

MatrixEntry(row, col, val) == [row |-> row, col |-> col, val |-> val]

(***************************************************************************)
(* LinearProgram(): the object after default construction                  *)
(***************************************************************************)
LinearProgram ==
    [ A |-> <<>>, b |-> <<>>, c |-> <<>>, sense |-> <<>>, x |-> <<>>,
      maximize |-> TRUE, non_negative |-> TRUE,
      is_rat |-> TRUE, method |-> "simplex_primal", glp_presolve |-> FALSE,
      status |-> "unset",
      obj_coeff |-> <<>>, con_coeff |-> <<>>,
      var_lb |-> <<>>, var_ub |-> <<>>, con_lb |-> <<>>, con_ub |-> <<>>,
      n_var |-> 0, n_con |-> 0,
      var_transform |-> <<>> ]

(***************************************************************************)
(* The builder API, as operators on an object (to_canonical_form calls     *)
(* them on the clone) and as actions of the caller.                        *)
(***************************************************************************)
make_var(o, lb, ub) ==
    [o EXCEPT !.var_lb = Append(@, lb),
              !.var_ub = Append(@, ub),
              !.obj_coeff = Append(@, R(0)),
              !.n_var = @ + 1]

make_con_throws_mutant(lb, ub) == ub = inf /\ lb = ub

make_con_throws(lb, ub) == ub = inf /\ lb = RNeg(ub)

make_con(o, lb, ub) ==
    IF make_con_throws(lb, ub) THEN o
    ELSE [o EXCEPT !.con_lb = Append(@, lb),
                   !.con_ub = Append(@, ub),
                   !.n_con = @ + 1]

set_obj_coeff(o, var, coeff, add) ==
    IF add
    THEN [o EXCEPT !.obj_coeff = SetAt(@, var, RAdd(At(@, var), coeff))]
    ELSE [o EXCEPT !.obj_coeff = SetAt(@, var, coeff)]

\* position (1-based) of the first entry for (con, var), 0 if there is none
FirstEntry(cc, con, var) ==
    LET S == {k \in 1..Len(cc) : cc[k].row = con /\ cc[k].col = var}
    IN  IF S = {} THEN 0 ELSE CHOOSE k \in S : \A j \in S : k <= j

set_con_coeff(o, con, var, coeff, add) ==
    LET k == FirstEntry(o.con_coeff, con, var)
    IN  IF add /\ k # 0
        THEN [o EXCEPT !.con_coeff[k].val = RAdd(@, coeff)]
        ELSE [o EXCEPT !.con_coeff = Append(@, MatrixEntry(con, var, coeff))]

(***************************************************************************)
(* to_canonical_form(): min dot(c,x) s.t. A x == b, x >= 0, b >= 0         *)
(***************************************************************************)
\* free variable: for every coeff of x in constraints, add -coeff to xnew.
\* The loop runs over the live list, so it also visits what it appends.
RECURSIVE MirrorFree(_, _, _, _)
MirrorFree(o, k, x, xnew) ==
    IF k > Len(o.con_coeff) THEN o
    ELSE LET me == o.con_coeff[k]
         IN  MirrorFree(IF me.col = x
                        THEN set_con_coeff(o, me.row, xnew, RNeg(me.val), FALSE)
                        ELSE o,
                        k + 1, x, xnew)

\* the bound adjustment shared by the two shifting branches
AdjustBound(o, me, delta) ==
    IF At(o.con_lb, me.row) # RNeg(inf)
    THEN [o EXCEPT !.con_lb = SetAt(@, me.row, RAdd(At(@, me.row), delta))]
    ELSE IF At(o.con_ub, me.row) # inf
    THEN [o EXCEPT !.con_ub = SetAt(@, me.row, RAdd(At(@, me.row), delta))]
    ELSE o

\* branch "lb == inf": x* = ub - x
RECURSIVE ShiftUpper(_, _, _, _)
ShiftUpper(o, k, x, ub) ==
    IF k > Len(o.con_coeff) THEN o
    ELSE LET me == o.con_coeff[k]
             o1 == IF me.col = x
                   THEN AdjustBound(o, me, RMul(me.val, RNeg(ub)))
                   ELSE o
         IN  ShiftUpper([o1 EXCEPT !.con_coeff[k].val = RMul(@, R(-1))],
                        k + 1, x, ub)

\* last branch: x* = x - l
RECURSIVE ShiftLower(_, _, _, _)
ShiftLower(o, k, x, lb) ==
    IF k > Len(o.con_coeff) THEN o
    ELSE LET me == o.con_coeff[k]
         IN  ShiftLower(IF me.col = x
                        THEN AdjustBound(o, me, RMul(me.val, lb))
                        ELSE o,
                        k + 1, x, lb)

CanonVar(o0, x) ==
    LET lb == At(o0.var_lb, x)
        ub == At(o0.var_ub, x)
        o  == [o0 EXCEPT !.var_lb = SetAt(@, x, R(0)),
                         !.var_ub = SetAt(@, x, inf)]
    IN  IF lb = RNeg(inf) /\ ub = inf
        THEN LET xnew == o.n_var
                 o1 == make_var(o, R(0), inf)
                 o2 == [o1 EXCEPT !.var_transform = Append(@, <<xnew, R(1), R(0)>>)]
                 o3 == set_obj_coeff(o2, xnew, RNeg(At(o2.obj_coeff, x)), FALSE)
             IN  MirrorFree(o3, 1, x, xnew)
        ELSE IF lb = inf
        THEN LET o1 == [o EXCEPT !.var_transform = Append(@, <<-1, R(-1), ub>>)]
                 o2 == [o1 EXCEPT !.obj_coeff = SetAt(@, x, RMul(At(@, x), R(-1)))]
             IN  ShiftUpper(o2, 1, x, ub)
        ELSE LET o1 == [o EXCEPT !.var_transform = Append(@, <<-1, R(1), RNeg(lb)>>)]
                 o2 == ShiftLower(o1, 1, x, lb)
             IN  IF ub # inf
                 THEN LET con == o2.n_con
                      IN  set_con_coeff(make_con(o2, RNeg(inf), RAdd(lb, ub)),
                                        con, x, R(1), FALSE)
                 ELSE o2

RECURSIVE CanonVars(_, _, _)
CanonVars(o, x, n_var_orig) ==
    IF x >= n_var_orig THEN o
    ELSE CanonVars(CanonVar(o, x), x + 1, n_var_orig)

\* lb <= cx <= ub with lb != ub: change ub to infty, add a constraint cx <= ub
RECURSIVE CopyRow(_, _, _, _)
CopyRow(o, k, c, newc) ==
    IF k > Len(o.con_coeff) THEN o
    ELSE LET me == o.con_coeff[k]
         IN  CopyRow(IF me.row = c
                     THEN set_con_coeff(o, newc, me.col, me.val, FALSE)
                     ELSE o,
                     k + 1, c, newc)

RECURSIVE SplitCons(_, _)
SplitCons(o, c) ==
    IF c >= o.n_con THEN o
    ELSE LET lb == At(o.con_lb, c)
             ub == At(o.con_ub, c)
         IN  IF lb # RNeg(inf) /\ ub # inf /\ lb # ub
             THEN LET o1 == [o EXCEPT !.con_ub = SetAt(@, c, inf)]
                      newc == o1.n_con
                      o2 == make_con(o1, RNeg(inf), ub)
                  IN  SplitCons(CopyRow(o2, 1, c, newc), c + 1)
             ELSE SplitCons(o, c + 1)

\* for every non-equality constraint, add a slack variable
RECURSIVE AddSlacks(_, _)
AddSlacks(o, c) ==
    IF c >= o.n_con THEN o
    ELSE LET lb == At(o.con_lb, c)
             ub == At(o.con_ub, c)
         IN  IF lb = RNeg(inf)
             THEN LET o1 == [o EXCEPT !.con_lb = SetAt(@, c, ub)]
                      xnew == o1.n_var
                  IN  AddSlacks(set_con_coeff(make_var(o1, R(0), inf),
                                              c, xnew, R(1), FALSE), c + 1)
             ELSE IF ub = inf
             THEN LET o1 == [o EXCEPT !.con_ub = SetAt(@, c, lb)]
                      xnew == o1.n_var
                  IN  AddSlacks(set_con_coeff(make_var(o1, R(0), inf),
                                              c, xnew, R(-1), FALSE), c + 1)
             ELSE AddSlacks(o, c + 1)

\* invert constraints with negative constants
NegateRow(cc, c) ==
    [k \in DOMAIN cc |->
        IF cc[k].row = c
        THEN MatrixEntry(cc[k].row, cc[k].col, RMul(cc[k].val, R(-1)))
        ELSE cc[k]]

RECURSIVE InvertNegative(_, _)
InvertNegative(o, c) ==
    IF c >= o.n_con THEN o
    ELSE IF less_than(At(o.con_ub, c), R(0))
         THEN InvertNegative(
                [o EXCEPT !.con_lb = SetAt(@, c, RMul(At(@, c), R(-1))),
                          !.con_ub = SetAt(@, c, RMul(At(@, c), R(-1))),
                          !.con_coeff = NegateRow(@, c)],
                c + 1)
         ELSE InvertNegative(o, c + 1)

\* canonical form is minimizing
Minimizing(o) ==
    IF o.maximize
    THEN [o EXCEPT !.maximize = FALSE,
                   !.obj_coeff = [k \in DOMAIN @ |-> RMul(@[k], R(-1))]]
    ELSE o

to_canonical_form_throws(o) == Len(o.var_transform) # 0

\* the part of to_canonical_form() after the loop over the variables
CanonCons(o) == Minimizing(InvertNegative(AddSlacks(SplitCons(o, 0), 0), 0))

to_canonical_form(o) == CanonCons(CanonVars(o, 0, o.n_var))

(***************************************************************************)
(* Dense form: check_sizes(), get_sense(), compat_build_matrix()           *)
(***************************************************************************)
n_rows(A) == Len(A)

n_cols(A) == IF Len(A) = 0 THEN 0 ELSE Len(A[1])

check_sizes_throws(o) == n_rows(o.A) # Len(o.b) \/ n_cols(o.A) # Len(o.c)

get_sense(o, i) == IF i < Len(o.sense) THEN At(o.sense, i) ELSE "<"

\* the nonzero elements of the sparse A, in its column-major iteration order
RECURSIVE LoadA(_, _, _)
LoadA(o, row, col) ==
    IF col >= n_cols(o.A) THEN o
    ELSE IF row >= n_rows(o.A) THEN LoadA(o, 0, col + 1)
    ELSE LoadA(IF At(At(o.A, row), col) # R(0)
               THEN set_con_coeff(o, row, col, At(At(o.A, row), col), FALSE)
               ELSE o,
               row + 1, col)

compat_build_matrix(o) ==
    IF o.n_var = 0
    THEN LoadA(
           [o EXCEPT
              !.con_coeff = <<>>,
              !.n_var = Len(o.c),
              !.n_con = n_rows(o.A),
              !.var_lb = [j \in 1..Len(o.c) |->
                            IF o.non_negative THEN R(0) ELSE RNeg(inf)],
              !.var_ub = [j \in 1..Len(o.c) |-> inf],
              !.con_lb = [i \in 1..n_rows(o.A) |->
                            IF get_sense(o, i - 1) = "<" THEN RNeg(inf) ELSE o.b[i]],
              !.con_ub = [i \in 1..n_rows(o.A) |->
                            IF get_sense(o, i - 1) = ">" THEN inf ELSE o.b[i]],
              !.obj_coeff = o.c],
           0, 0)
    ELSE o

(***************************************************************************)
(* simplex(): two-phase primal revised simplex on the canonical form       *)
(***************************************************************************)
RECURSIVE SumTo(_, _)
SumTo(f, n) == IF n = 0 THEN R(0) ELSE RAdd(SumTo(f, n - 1), f[n])

dot(u, v) == SumTo([k \in 1..Len(u) |-> RMul(u[k], v[k])], Len(u))

\* Adense(me.row, me.col) = me.val, in list order: the last entry wins
Adense(o) ==
    [i \in 1..o.n_con |-> [j \in 1..o.n_var |->
        LET S == {k \in 1..Len(o.con_coeff) :
                    o.con_coeff[k].row = i - 1 /\ o.con_coeff[k].col = j - 1}
        IN  IF S = {} THEN R(0)
            ELSE o.con_coeff[CHOOSE k \in S : \A l \in S : l <= k].val]]

Column(Ad, m, j) == [i \in 1..m |-> At(Ad[i], j)]

\* the assertions at the head of simplex()
simplex_asserts(o) ==
    /\ ~o.maximize
    /\ \A i \in 1..o.n_con : ~less_than(o.con_lb[i], R(0))

\* the state at the head of the first iteration; orig is the local of
\* solve() that keeps n_var
simplex_init(o) ==
    LET m == o.n_con
        n == o.n_var
    IN  [ Adense    |-> Adense(o),
          basic     |-> [i \in 1..m |-> (i - 1) + n],
          is_basic  |-> [j \in 1..(n + m) |-> IF j > n THEN 1 ELSE 0],
          Binv      |-> [i \in 1..m |-> [j \in 1..m |-> IF i = j THEN R(1) ELSE R(0)]],
          cB        |-> [i \in 1..m |-> R(1)],
          x         |-> [j \in 1..(n + m) |-> IF j > n THEN o.con_lb[j - n] ELSE R(0)],
          phase_one |-> TRUE,
          entering  |-> -1,
          orig      |-> 0 ]

pi_T(s, m) == [j \in 1..m |-> dot(s.cB, [i \in 1..m |-> s.Binv[i][j]])]

reduced_cost(o, s, pi, j) ==
    RSub(IF s.phase_one THEN R(0) ELSE At(o.obj_coeff, j),
         dot(pi, Column(s.Adense, o.n_con, j)))

\* the first nonbasic j < n with a negative reduced cost, -1 if none
pricing(o, s) ==
    LET pi == pi_T(s, o.n_con)
        S == {j \in 0..(o.n_var - 1) :
                At(s.is_basic, j) = 0 /\ less_than(reduced_cost(o, s, pi, j), R(0))}
    IN  IF S = {} THEN -1 ELSE CHOOSE j \in S : \A l \in S : j <= l

\* the locals at the end of the pricing loop of an iteration
priced(o, s) == [s EXCEPT !.entering = pricing(o, s)]

BinvAs(o, s, e) ==
    [i \in 1..o.n_con |-> dot(s.Binv[i], Column(s.Adense, o.n_con, e))]

\* the ratio test, as the scan of the code: <<leaving, min_ratio>>
RECURSIVE ratio_test(_, _, _, _, _)
ratio_test(s, d, i, leaving, min_ratio) ==
    IF i >= Len(d) THEN <<leaving, min_ratio>>
    ELSE IF less_than(R(0), At(d, i))
         THEN LET ratio == RDiv(At(s.x, At(s.basic, i)), At(d, i))
              IN  IF less_than(ratio, min_ratio) \/ leaving = -1
                  THEN ratio_test(s, d, i + 1, i, ratio)
                  ELSE ratio_test(s, d, i + 1, leaving, min_ratio)
         ELSE ratio_test(s, d, i + 1, leaving, min_ratio)

RECURSIVE update_x(_, _, _, _, _)
update_x(x, basic, d, min_ratio, i) ==
    IF i >= Len(d) THEN x
    ELSE update_x(SetAt(x, At(basic, i),
                        RSub(At(x, At(basic, i)), RMul(min_ratio, At(d, i)))),
                  basic, d, min_ratio, i + 1)

\* one pivot: solution, basis inverse, status flags
pivot(o, s, e, leaving, min_ratio) ==
    LET m == o.n_con
        d == BinvAs(o, s, e)
        pivot_value == At(d, leaving)
        x1 == SetAt(update_x(s.x, s.basic, d, min_ratio, 0), e, min_ratio)
        B1 == [i \in 1..m |->
                IF i - 1 = leaving
                THEN [j \in 1..m |-> RDiv(s.Binv[i][j], pivot_value)]
                ELSE [j \in 1..m |->
                        RSub(s.Binv[i][j],
                             RMul(RDiv(d[i], pivot_value), At(s.Binv, leaving)[j]))]]
        ib1 == SetAt(SetAt(s.is_basic, At(s.basic, leaving), 0), e, 0)
    IN  [s EXCEPT !.x = x1,
                  !.Binv = B1,
                  !.is_basic = ib1,
                  !.cB = SetAt(@, leaving,
                               IF s.phase_one THEN R(0) ELSE At(o.obj_coeff, e)),
                  !.basic = SetAt(@, leaving, e)]

\* some artificial variable is still positive at the end of phase 1
artificial_positive(o, s) ==
    \E j \in o.n_var..(o.n_var + o.n_con - 1) : less_than(R(0), At(s.x, j))

\* the basis positions whose cost is read at c(n), one past the end of c
reads_past_c(o, s) == {i \in 1..o.n_con : s.basic[i] = o.n_var}

\* costs of the basic variables for phase 2; g is what a read of c(n) yields
phase_two_costs(o, s, g) ==
    [i \in 1..o.n_con |->
        IF s.basic[i] > o.n_var THEN R(0)
        ELSE IF s.basic[i] = o.n_var THEN g
        ELSE At(o.obj_coeff, s.basic[i])]

(***************************************************************************)
(* original_x() and optimum()                                              *)
(***************************************************************************)
original_x(o) ==
    [v \in 1..Len(o.var_transform) |->
        LET v2    == o.var_transform[v][1]
            coeff == o.var_transform[v][2]
            add   == o.var_transform[v][3]
        IN  RSub(RAdd(RMul(o.x[v], coeff), add),
                 IF v2 >= 0 THEN At(o.x, v2) ELSE R(0))]

optimum_throws(o) ==
    IF o.n_var = 0 THEN Len(o.x) # Len(o.c) ELSE Len(o.x) = 0

optimum_no_solution(o) == o.n_var # 0 /\ Len(o.x) = 0

optimum(o) ==
    IF o.n_var = 0 THEN dot(o.x, o.c)
    ELSE SumTo([var \in 1..o.n_var |-> RMul(o.obj_coeff[var], o.x[var])], o.n_var)

(***************************************************************************)
(* Inputs of the calls                                                     *)
(***************************************************************************)
VarBounds ==
    { <<RNeg(inf), inf>>, <<RNeg(inf), R(2)>>, <<R(0), inf>>,
      <<R(-5), inf>>, <<R(1), R(2)>> }

ConBounds ==
    { <<RNeg(inf), R(1)>>, <<R(1), inf>>, <<R(0), R(2)>>, <<R(0), R(0)>>,
      <<RNeg(inf), inf>> }

Coeffs == { R(1), R(-1) }

Row1(a) == <<a>>

\* the programs of tests/LinearProgram.cpp, given in dense form
Dense(A, b, c, sense, maximize) ==
    [LinearProgram EXCEPT !.A = A, !.b = b, !.c = c, !.sense = sense,
                          !.maximize = maximize]

TestPrograms ==
    { Dense(<< <<R(1), R(2)>>, <<R(3), R(1)>> >>, <<R(1), R(2)>>,
            <<Q(6, 10), Q(5, 10)>>, <<>>, TRUE),
      Dense(<< <<R(1), R(1), R(0)>>, <<R(0), R(1), R(1)>> >>, <<R(1), R(1)>>,
            <<R(1), R(2), R(-1)>>, <<>>, TRUE),
      Dense(<< <<R(3), R(-4)>>, <<R(1), R(2)>>, <<R(1), R(0)>> >>,
            <<R(12), R(4), R(1)>>, <<R(3), R(4)>>, <<"<", ">", ">">>, FALSE),
      Dense(<< <<R(1), R(2), R(2)>>, <<R(2), R(1), R(2)>>, <<R(2), R(2), R(1)>> >>,
            <<R(20), R(20), R(20)>>, <<R(-10), R(-12), R(-12)>>, <<>>, FALSE),
      Dense(<< <<R(1)>>, <<R(1)>> >>, <<R(3), R(2)>>, <<R(1)>>, <<">", "<">>, TRUE),
      Dense(<< <<R(1)>>, <<R(-1)>> >>, <<R(3), R(-2)>>, <<R(4)>>, <<">", ">">>, TRUE),
      Dense(<< <<R(1)>> >>, <<R(2)>>, <<R(-1)>>, <<">">>, FALSE) }

\* small one-column programs in dense form
DenseRows == { <<a, b, s>> : a \in {R(-1), R(0), R(1)}, b \in {R(0), R(2)},
                              s \in {"<", "=", ">"} }

DensePrograms ==
    UNION { { Dense([i \in 1..m |-> Row1(rows[i][1])],
                    [i \in 1..m |-> rows[i][2]],
                    <<R(1)>>,
                    [i \in 1..m |-> rows[i][3]],
                    mx) :
              rows \in [1..m -> DenseRows], mx \in BOOLEAN }
            : m \in 1..MaxDenseRows }

NoSimplex ==
    [ Adense |-> <<>>, basic |-> <<>>, is_basic |-> <<>>, Binv |-> <<>>,
      cB |-> <<>>, x |-> <<>>, phase_one |-> TRUE, entering |-> -1,
      orig |-> 0 ]

\* outcome of a call: out is "return", "throw" or "abort"; val the value
\* returned; info what the call was given or where it stopped
Outcome(op, out, val, info) == [op |-> op, out |-> out, val |-> val, info |-> info]

Void == Outcome("none", "return", 0, <<>>)

\* no backend problem exists, the backend environment is not allocated
NoGlpk ==
    [ live |-> 0, env |-> FALSE, orig |-> 0,
      glp_res |-> "0", glp_status |-> "GLP_UNDEF", glp_dual_st |-> "GLP_UNDEF" ]

NoHistory ==
    [ entry |-> LinearProgram, optimal |-> FALSE, degenerate |-> FALSE, iter |-> 0 ]

\* iterations of the loop of simplex() that one solve() is followed through
MaxIter == 12

\* method_t
Methods == { "simplex_primal", "simplex_dual", "simplex_dualp", "interior" }

IsDense(o) == Len(o.c) > 0

(***************************************************************************)
(* Initial states: LinearProgram() or LinearProgram(A, b, c), with the     *)
(* public fields maximize and sense as the caller sets them                *)
(***************************************************************************)
RatPrograms ==
    { [LinearProgram EXCEPT !.maximize = mx] : mx \in BOOLEAN }
    \cup TestPrograms \cup DensePrograms

Init ==
    /\ this \in { [p EXCEPT !.method = m] : p \in RatPrograms, m \in Methods }
    /\ glp = NoGlpk
    /\ hist = NoHistory
    /\ lp = LinearProgram
    /\ lpv = LinearProgram
    /\ sx = NoSimplex
    /\ pc = "idle"
    /\ ret = Void

(***************************************************************************)
(* The caller builds the model                                             *)
(***************************************************************************)
MakeVar ==
    /\ pc = "idle" /\ ~IsDense(this)
    /\ this.n_var < MaxVar
    /\ \E bnd \in VarBounds :
          /\ this' = make_var(this, bnd[1], bnd[2])
          /\ ret' = Void
    /\ UNCHANGED <<lp, lpv, sx, pc, glp, hist>>

MakeConUpTo(max_con) ==
    /\ pc = "idle" /\ ~IsDense(this)
    /\ \E bnd \in ConBounds :
          /\ make_con(this, bnd[1], bnd[2]).n_con <= max_con
          /\ this' = make_con(this, bnd[1], bnd[2])
          /\ ret' = IF make_con_throws(bnd[1], bnd[2])
                    THEN Outcome("make_con", "throw", 0, bnd)
                    ELSE Outcome("make_con", "return", this.n_con, bnd)
    /\ UNCHANGED <<lp, lpv, sx, pc, glp, hist>>

MakeCon == MakeConUpTo(MaxCon)

SetObjCoeff ==
    /\ pc = "idle" /\ ~IsDense(this)
    /\ \E var \in 0..(this.n_var - 1), add \in BOOLEAN :
          /\ add => At(this.obj_coeff, var) = R(0)
          /\ this' = set_obj_coeff(this, var, R(1), add)
    /\ ret' = Void
    /\ UNCHANGED <<lp, lpv, sx, pc, glp, hist>>

SetConCoeffUpTo(max_entries) ==
    /\ pc = "idle" /\ ~IsDense(this)
    /\ \E con \in 0..(this.n_con - 1), var \in 0..(this.n_var - 1),
          coeff \in Coeffs, add \in BOOLEAN :
          LET after == set_con_coeff(this, con, var, coeff, add)
          IN  /\ Len(after.con_coeff) <= max_entries
              /\ \A k \in 1..Len(after.con_coeff) :
                    /\ RLeq(R(-MaxAbsCoeff), after.con_coeff[k].val)
                    /\ RLeq(after.con_coeff[k].val, R(MaxAbsCoeff))
              /\ this' = after
              /\ ret' = Outcome("set_con_coeff", "return", 0, <<con, var, coeff, add>>)
    /\ UNCHANGED <<lp, lpv, sx, pc, glp, hist>>

SetConCoeff == SetConCoeffUpTo(MaxEntries)

(***************************************************************************)
(* solve() for rat: up to the head of the first simplex iteration          *)
(***************************************************************************)
Solve ==
    /\ pc \in {"idle", "done"}
    /\ this.is_rat
    /\ this.n_var > 0 \/ IsDense(this)
    /\ hist' = [hist EXCEPT !.entry = this, !.degenerate = FALSE, !.iter = 0]
    /\ glp' = glp
    /\ IF check_sizes_throws(this)
       THEN /\ ret' = Outcome("solve", "throw", 0, <<"invalid size">>)
            /\ pc' = "done"
            /\ UNCHANGED <<this, lp, lpv, sx>>
       ELSE IF this.method # "simplex_primal"
       THEN /\ this' = compat_build_matrix(this)
            /\ ret' = Outcome("solve", "throw", 0, <<"not supported">>)
            /\ pc' = "done"
            /\ UNCHANGED <<lp, lpv, sx>>
       ELSE LET built == compat_build_matrix(this)
                mid   == CanonVars(built, 0, built.n_var)
                clone == CanonCons(mid)
            IN  /\ this' = built
                /\ lpv' = mid
                /\ lp' = clone
                /\ IF simplex_asserts(clone)
                   THEN /\ sx' = [priced(clone, simplex_init(clone))
                                     EXCEPT !.orig = this.n_var]
                        /\ pc' = "loop"
                        /\ ret' = Outcome("solve", "running", 0, <<>>)
                   ELSE /\ sx' = NoSimplex
                        /\ pc' = "aborted"
                        /\ ret' = Outcome("solve", "abort", 0, <<>>)

\* a solve() that carried the clone's fields over into the caller's object
solve_result_mutant(o, solved, orig) ==
    [solved EXCEPT !.x = IF solved.status = "optimal" THEN original_x(solved) ELSE o.x,
                   !.n_var = orig]

\* what solve() leaves in the caller's object o once simplex() has returned
\* on the clone
solve_result(o, solved, orig) ==
    [o EXCEPT !.status = solved.status,
              !.x = IF solved.status = "optimal" THEN original_x(solved) ELSE @,
              !.n_var = orig]

\* simplex() leaves the loop with status st; solve() finishes
Exit(st) ==
    LET n == lp.n_var
        solved == [lp EXCEPT !.x = SubSeq(sx.x, 1, n), !.status = st]
        res == (st = "optimal")
    IN  /\ this' = solve_result(this, solved, sx.orig)
        /\ lp' = LinearProgram
        /\ lpv' = LinearProgram
        /\ sx' = NoSimplex
        /\ pc' = "done"
        /\ ret' = Outcome("solve", "return", res, <<sx.phase_one>>)
        /\ glp' = glp
        /\ hist' = [hist EXCEPT !.optimal = @ \/ res]

\* no entering variable in phase 1, an artificial variable is positive
SimplexInfeasible ==
    /\ pc = "loop"
    /\ sx.entering = -1 /\ sx.phase_one
    /\ artificial_positive(lp, sx)
    /\ Exit("infeasible")

\* no entering variable in phase 1, all artificials at 0: start phase 2
SimplexPhaseTwo ==
    /\ pc = "loop"
    /\ sx.entering = -1 /\ sx.phase_one
    /\ ~artificial_positive(lp, sx)
    /\ reads_past_c(lp, sx) = {}
    /\ hist.iter < MaxIter
    /\ sx' = priced(lp, [sx EXCEPT !.phase_one = FALSE,
                                    !.cB = phase_two_costs(lp, sx, R(0))])
    /\ hist' = [hist EXCEPT !.iter = @ + 1]
    /\ UNCHANGED <<this, lp, lpv, pc, ret, glp>>

\* the same, when the loop reads c(n), past the end of c: a build with
\* bounds checks throws out of solve(), one without reads some value
OutOfBoundsValues == { R(0), R(-1) }

SimplexPhaseTwoPastEnd ==
    /\ pc = "loop"
    /\ sx.entering = -1 /\ sx.phase_one
    /\ ~artificial_positive(lp, sx)
    /\ reads_past_c(lp, sx) # {}
    /\ \/ /\ hist.iter < MaxIter
          /\ \E g \in OutOfBoundsValues :
                sx' = priced(lp, [sx EXCEPT !.phase_one = FALSE,
                                            !.cB = phase_two_costs(lp, sx, g)])
          /\ hist' = [hist EXCEPT !.iter = @ + 1]
          /\ UNCHANGED <<this, lp, lpv, pc, ret, glp>>
       \/ /\ lp' = LinearProgram
          /\ lpv' = LinearProgram
          /\ sx' = NoSimplex
          /\ pc' = "done"
          /\ ret' = Outcome("solve", "throw", 0, <<"index out of bounds">>)
          /\ UNCHANGED <<this, glp, hist>>

SimplexOptimal ==
    /\ pc = "loop"
    /\ sx.entering = -1 /\ ~sx.phase_one
    /\ Exit("optimal")

SimplexUnbounded ==
    /\ pc = "loop"
    /\ sx.entering # -1
    /\ ratio_test(sx, BinvAs(lp, sx, sx.entering), 0, -1, R(0))[1] = -1
    /\ Exit("unbounded")

SimplexPivot ==
    /\ pc = "loop"
    /\ sx.entering # -1
    /\ hist.iter < MaxIter
    /\ LET e == sx.entering
           rt == ratio_test(sx, BinvAs(lp, sx, e), 0, -1, R(0))
       IN  /\ rt[1] # -1
           /\ sx' = priced(lp, pivot(lp, sx, e, rt[1], rt[2]))
           /\ hist' = [hist EXCEPT !.degenerate = @ \/ rt[2] = R(0),
                                    !.iter = @ + 1]
    /\ UNCHANGED <<this, lp, lpv, pc, ret, glp>>

Next ==
    \/ MakeVar
    \/ MakeCon
    \/ SetObjCoeff
    \/ SetConCoeff
    \/ Solve
    \/ SimplexInfeasible
    \/ SimplexPhaseTwo
    \/ SimplexPhaseTwoPastEnd
    \/ SimplexOptimal
    \/ SimplexUnbounded
    \/ SimplexPivot

Spec == Init /\ [][Next]_vars

(***************************************************************************)
(* The caller only builds the model.  SpecBuild lets the coefficient list  *)
(* grow longer, SpecCon lets the caller create more constraints.           *)
(***************************************************************************)
MaxBuildEntries == 3

MaxBuildCon == 2

InitBuild == Init /\ ~IsDense(this)

BuildSetConCoeff == SetConCoeffUpTo(MaxBuildEntries)

NextBuild ==
    \/ MakeVar
    \/ MakeCon
    \/ SetObjCoeff
    \/ BuildSetConCoeff

SpecBuild == InitBuild /\ [][NextBuild]_vars

BuildMakeCon == MakeConUpTo(MaxBuildCon)

NextCon ==
    \/ MakeVar
    \/ BuildMakeCon
    \/ SetObjCoeff

SpecCon == InitBuild /\ [][NextCon]_vars

(***************************************************************************)
(* The floating-point adapter: the generic solve() and glpk().  The codes  *)
(* the backend reports are any of the codes the adapter tests for, or      *)
(* another one; a call of the backend between glp_create_prob and          *)
(* glp_delete_prob may throw.  glp.live counts the problems created and    *)
(* not yet deleted, glp.env tells whether the environment is held.         *)
(* Models of rat with a method other than simplex_primal are solved here   *)
(* too: solve() throws before the exact simplex is entered.                *)
(***************************************************************************)
MaxProblems == 2

GlpStatuses ==
    { "GLP_UNDEF", "GLP_FEAS", "GLP_INFEAS", "GLP_NOFEAS", "GLP_OPT", "GLP_UNBND" }

GlpDualStatuses == { "GLP_UNDEF", "GLP_FEAS", "GLP_INFEAS", "GLP_NOFEAS" }

GlpReturnCodes == { "0", "GLP_ENOPFS", "GLP_ENODFS", "GLP_EFAIL" }

simplex_status_mutant(glp_res, glp_status, glp_dual_st) ==
    IF glp_status = "GLP_OPT" THEN "optimal"
    ELSE IF glp_status = "GLP_UNBND" THEN "unbounded"
    ELSE IF glp_status = "GLP_NOFEAS" \/ glp_res = "GLP_ENOPFS" THEN "infeasible"
    ELSE IF glp_dual_st = "GLP_NOFEAS" \/ glp_res = "GLP_ENODFS"
         THEN "infeasible_or_unbounded"
    ELSE "error"

simplex_status(glp_res, glp_status, glp_dual_st) ==
    IF glp_status = "GLP_OPT" THEN "optimal"
    ELSE IF glp_status = "GLP_NOFEAS" \/ glp_res = "GLP_ENOPFS" THEN "infeasible"
    ELSE IF glp_status = "GLP_UNBND" THEN "unbounded"
    ELSE IF glp_dual_st = "GLP_NOFEAS" \/ glp_res = "GLP_ENODFS"
         THEN "infeasible_or_unbounded"
    ELSE "error"

interior_status(glp_status) ==
    IF glp_status = "GLP_OPT" THEN "optimal"
    ELSE IF glp_status = "GLP_NOFEAS" THEN "infeasible_or_unbounded"
    ELSE "error"

\* the primal values the backend may hand back, one per column
GlpkSolutions(n) == { [j \in 1..n |-> v] : v \in { R(0), R(1) } }

FloatPrograms ==
    { [p EXCEPT !.is_rat = FALSE, !.method = m, !.glp_presolve = b] :
        p \in TestPrograms, m \in Methods, b \in BOOLEAN }

UnsupportedRatPrograms ==
    { [p EXCEPT !.method = m] :
        p \in TestPrograms, m \in Methods \ { "simplex_primal" } }

GlpkStages == { "glpk_created", "glpk_loaded", "glpk_solved" }

InitGlpk ==
    /\ this \in FloatPrograms \cup UnsupportedRatPrograms
    /\ glp = NoGlpk
    /\ hist = NoHistory
    /\ lp = LinearProgram
    /\ lpv = LinearProgram
    /\ sx = NoSimplex
    /\ pc = "idle"
    /\ ret = Void

\* solve() up to glp_create_prob()
SolveFloat ==
    /\ pc \in {"idle", "done"}
    /\ ~this.is_rat
    /\ this.n_var > 0 \/ IsDense(this)
    /\ glp.live < MaxProblems
    /\ hist' = [hist EXCEPT !.entry = this]
    /\ IF check_sizes_throws(this)
       THEN /\ ret' = Outcome("solve", "throw", 0, <<"invalid size">>)
            /\ pc' = "done"
            /\ UNCHANGED <<this, glp>>
       ELSE /\ this' = compat_build_matrix(this)
            /\ glp' = [NoGlpk EXCEPT !.live = glp.live + 1, !.env = TRUE,
                                     !.orig = this.n_var]
            /\ ret' = Outcome("solve", "running", 0, <<>>)
            /\ pc' = "glpk_created"
    /\ UNCHANGED <<lp, lpv, sx>>

\* direction, columns, rows and the matrix are handed to the backend
GlpkLoad ==
    /\ pc = "glpk_created"
    /\ pc' = "glpk_loaded"
    /\ UNCHANGED <<this, lp, lpv, sx, ret, glp, hist>>

GlpkSimplex ==
    /\ pc = "glpk_loaded"
    /\ this.method # "interior"
    /\ \E glp_res \in GlpReturnCodes, glp_status \in GlpStatuses,
          glp_dual_st \in GlpDualStatuses, prim \in GlpkSolutions(this.n_var) :
          LET status == simplex_status(glp_res, glp_status, glp_dual_st)
          IN  /\ glp' = [glp EXCEPT !.glp_res = glp_res,
                                    !.glp_status = glp_status,
                                    !.glp_dual_st = glp_dual_st]
              /\ this' = [this EXCEPT
                            !.status = status,
                            !.x = IF status = "optimal" THEN prim ELSE @]
    /\ pc' = "glpk_solved"
    /\ UNCHANGED <<lp, lpv, sx, ret, hist>>

GlpkInterior ==
    /\ pc = "glpk_loaded"
    /\ this.method = "interior"
    /\ \E glp_status \in GlpStatuses, prim \in GlpkSolutions(this.n_var) :
          LET status == interior_status(glp_status)
          IN  /\ glp' = [glp EXCEPT !.glp_status = glp_status]
              /\ this' = [this EXCEPT
                            !.status = status,
                            !.x = IF status = "optimal" THEN prim ELSE @]
    /\ pc' = "glpk_solved"
    /\ UNCHANGED <<lp, lpv, sx, ret, hist>>

\* glp_delete_prob, glp_free_env, return to solve(), which restores n_var
GlpkClean ==
    /\ pc = "glpk_solved"
    /\ LET res == this.status = "optimal"
       IN  /\ glp' = [NoGlpk EXCEPT !.live = glp.live - 1, !.env = FALSE]
           /\ this' = [this EXCEPT !.n_var = glp.orig]
           /\ ret' = Outcome("solve", "return", res, <<FALSE>>)
           /\ hist' = [hist EXCEPT !.optimal = @ \/ res]
    /\ pc' = "done"
    /\ UNCHANGED <<lp, lpv, sx>>

\* a call of the backend throws: nothing catches it in glpk() or solve()
GlpkBackendThrows ==
    /\ pc \in GlpkStages
    /\ glp' = [NoGlpk EXCEPT !.live = glp.live, !.env = glp.env]
    /\ ret' = Outcome("solve", "throw", 0, <<"backend error">>)
    /\ pc' = "done"
    /\ UNCHANGED <<this, lp, lpv, sx, hist>>

NextGlpk ==
    \/ Solve
    \/ SolveFloat
    \/ GlpkLoad
    \/ GlpkSimplex
    \/ GlpkInterior
    \/ GlpkClean
    \/ GlpkBackendThrows

SpecGlpk == InitGlpk /\ [][NextGlpk]_vars

(***************************************************************************)
(* What a solution has to satisfy                                          *)
(***************************************************************************)
Returned(v) == pc = "done" /\ ret.op = "solve" /\ ret.out = "return" /\ ret.val = v

Threw == pc = "done" /\ ret.op = "solve" /\ ret.out = "throw"

NVars(o) == Len(o.var_lb)

NCons(o) == Len(o.con_lb)

\* sum over the stored coefficients of row r of coeff * x(col)
RowValue(o, r, x) ==
    SumTo([k \in 1..Len(o.con_coeff) |->
              IF o.con_coeff[k].row = r
              THEN RMul(o.con_coeff[k].val, At(x, o.con_coeff[k].col))
              ELSE R(0)],
          Len(o.con_coeff))

SatisfiesModel(o, x) ==
    /\ Len(x) = NVars(o)
    /\ \A v \in 0..(NVars(o) - 1) :
          RLeq(At(o.var_lb, v), At(x, v)) /\ RLeq(At(x, v), At(o.var_ub, v))
    /\ \A r \in 0..(NCons(o) - 1) :
          /\ RLeq(At(o.con_lb, r), RowValue(o, r, x))
          /\ RLeq(RowValue(o, r, x), At(o.con_ub, r))

\* every variable is free or has a finite lower bound: to_canonical_form()
\* and simplex() then compute with finite values only
FiniteArithmetic(o) ==
    \A v \in 1..NVars(o) : o.var_lb[v] = RNeg(inf) => o.var_ub[v] = inf

(***************************************************************************)
(* C1: whenever solve() returns true, the solution x left in the caller's  *)
(* model satisfies that model exactly: every variable within its bounds,   *)
(* every constraint's row value within its bounds.  Stated here for the    *)
(* incrementally built models that involve no arithmetic on infinity.      *)
(***************************************************************************)
C1_SolutionSatisfiesModel ==
    (Returned(TRUE) /\ ~IsDense(this) /\ FiniteArithmetic(this))
        => SatisfiesModel(this, this.x)

(***************************************************************************)
(* Reference answers.  A program in one variable is solved by intersecting *)
(* intervals; the programs of the tests carry the optimum the tests expect.*)
(***************************************************************************)
NoDuplicates(o) ==
    \A k, l \in 1..Len(o.con_coeff) :
        (o.con_coeff[k].row = o.con_coeff[l].row
            /\ o.con_coeff[k].col = o.con_coeff[l].col) => k = l

OneVariable(o) == NVars(o) = 1 /\ NoDuplicates(o) /\ FiniteArithmetic(o)

\* the coefficient of the only variable in row r
Coeff1(o, r) == RowValue(o, r, <<R(1)>>)

LowerBounds1(o) ==
    {o.var_lb[1]}
    \cup {RDiv(At(o.con_lb, r), Coeff1(o, r)) :
            r \in {q \in 0..(NCons(o) - 1) : less_than(R(0), Coeff1(o, q))}}
    \cup {RDiv(At(o.con_ub, r), Coeff1(o, r)) :
            r \in {q \in 0..(NCons(o) - 1) : less_than(Coeff1(o, q), R(0))}}

UpperBounds1(o) ==
    {o.var_ub[1]}
    \cup {RDiv(At(o.con_ub, r), Coeff1(o, r)) :
            r \in {q \in 0..(NCons(o) - 1) : less_than(R(0), Coeff1(o, q))}}
    \cup {RDiv(At(o.con_lb, r), Coeff1(o, r)) :
            r \in {q \in 0..(NCons(o) - 1) : less_than(Coeff1(o, q), R(0))}}

Lo1(o) == CHOOSE v \in LowerBounds1(o) : \A w \in LowerBounds1(o) : RLeq(w, v)

Hi1(o) == CHOOSE v \in UpperBounds1(o) : \A w \in UpperBounds1(o) : RLeq(v, w)

Feasible1(o) ==
    /\ RLeq(Lo1(o), Hi1(o))
    /\ \A r \in 0..(NCons(o) - 1) :
          Coeff1(o, r) = R(0) =>
              RLeq(At(o.con_lb, r), R(0)) /\ RLeq(R(0), At(o.con_ub, r))

\* the cost of the variable when the program is read as a minimization
MinCost1(o) == IF o.maximize THEN RNeg(o.obj_coeff[1]) ELSE o.obj_coeff[1]

Unbounded1(o) ==
    /\ Feasible1(o)
    /\ \/ less_than(R(0), MinCost1(o)) /\ ~IsFinite(Lo1(o))
       \/ less_than(MinCost1(o), R(0)) /\ ~IsFinite(Hi1(o))

Optimum1(o) ==
    IF less_than(R(0), MinCost1(o)) THEN RMul(o.obj_coeff[1], Lo1(o))
    ELSE IF less_than(MinCost1(o), R(0)) THEN RMul(o.obj_coeff[1], Hi1(o))
    ELSE R(0)

\* the four programs of the test "Optimal", in the order of TestPrograms
IsTest1(o) == o.c = <<Q(6, 10), Q(5, 10)>>

IsTest2(o) == o.c = <<R(1), R(2), R(-1)>>

IsTest3(o) == o.c = <<R(3), R(4)>>

IsTest4(o) == o.c = <<R(-10), R(-12), R(-12)>>

ExpectedOptimum(o) ==
    IF IsTest1(o) THEN Q(46, 100)
    ELSE IF IsTest2(o) THEN R(2)
    ELSE IF IsTest3(o) THEN R(9)
    ELSE R(-136)

ExpectedSolution(o) ==
    IF IsTest1(o) THEN <<Q(6, 10), Q(2, 10)>>
    ELSE IF IsTest2(o) THEN <<R(0), R(1), R(0)>>
    ELSE IF IsTest3(o) THEN <<R(1), Q(3, 2)>>
    ELSE <<R(4), R(4), R(4)>>

IsOptimalTest(o) == IsTest1(o) \/ IsTest2(o) \/ IsTest3(o) \/ IsTest4(o)

SolveEnded == pc = "done" /\ ret.op = "solve"

(***************************************************************************)
(* C2: for a feasible program with a finite optimum given in dense form,   *)
(* solve() returns true, status is optimal and optimum() is the true       *)
(* optimal value.  The programs are those of the test "Optimal" and the    *)
(* one-column programs.                                                    *)
(***************************************************************************)
C2_DenseOptimum ==
    (SolveEnded /\ IsDense(this)
        /\ \/ IsOptimalTest(this)
           \/ OneVariable(this) /\ Feasible1(this) /\ ~Unbounded1(this))
    => /\ Returned(TRUE)
       /\ this.status = "optimal"
       /\ optimum(this) = (IF IsOptimalTest(this) THEN ExpectedOptimum(this)
                           ELSE Optimum1(this))
       /\ IsOptimalTest(this) => this.x = ExpectedSolution(this)

(***************************************************************************)
(* C3: one variable v = make_var(lb, +infinity) with finite lb, one        *)
(* constraint make_con(0, 0) without coefficients, objective coefficient 1 *)
(* on v, maximize = false: solve() returns true with status optimal, the   *)
(* solution is x(v) = lb and optimum() is lb.                              *)
(***************************************************************************)
IsLowerBoundedProgram(o) ==
    /\ ~IsDense(o) /\ ~o.maximize
    /\ o.n_var = 1 /\ IsFinite(o.var_lb[1]) /\ o.var_ub[1] = inf
    /\ o.n_con = 1 /\ o.con_lb[1] = R(0) /\ o.con_ub[1] = R(0)
    /\ o.con_coeff = <<>>
    /\ o.obj_coeff = <<R(1)>>

C3_LowerBoundedMinimum ==
    (SolveEnded /\ IsLowerBoundedProgram(this))
    => /\ Returned(TRUE)
       /\ this.status = "optimal"
       /\ this.x = <<this.var_lb[1]>>
       /\ optimum(this) = this.var_lb[1]

(***************************************************************************)
(* C4: when the constraints and the variable bounds admit no feasible      *)
(* point, solve() returns false with status infeasible and leaves x as it  *)
(* was.  Stated for the programs in one variable.                          *)
(***************************************************************************)
C4_Infeasible ==
    (SolveEnded /\ OneVariable(this) /\ ~Feasible1(this))
    => /\ Returned(FALSE)
       /\ this.status = "infeasible"
       /\ this.x = <<>>

(***************************************************************************)
(* C5: when the program is feasible and its objective can be improved      *)
(* without limit, solve() returns false with status unbounded; and status  *)
(* unbounded is reported only in phase 2 and only for a feasible program.  *)
(* Stated for the programs in one variable.                                *)
(***************************************************************************)
C5_Unbounded ==
    /\ (SolveEnded /\ OneVariable(this) /\ Unbounded1(this))
          => Returned(FALSE) /\ this.status = "unbounded"
    /\ (Returned(FALSE) /\ this.status = "unbounded" /\ OneVariable(this))
          => ret.info = <<FALSE>> /\ Feasible1(this)

(***************************************************************************)
(* The model after the loop of to_canonical_form() over the variables is   *)
(* lpv, the model it started from is this (while solve() runs).            *)
(***************************************************************************)
Canonicalized == pc \in {"loop", "aborted"} /\ ret.op = "solve"

DoubleBounded(o, v) == IsFinite(At(o.var_lb, v)) /\ IsFinite(At(o.var_ub, v))

UpperOnly(o, v) == At(o.var_lb, v) = RNeg(inf) /\ IsFinite(At(o.var_ub, v))

\* the constraint added for the double-bounded variable v
AddedCon(o, v) ==
    o.n_con + Cardinality({u \in 0..(v - 1) : DoubleBounded(o, u)})

RowEntries(o, r) == {k \in 1..Len(o.con_coeff) : o.con_coeff[k].row = r}

(***************************************************************************)
(* C6: for a variable with finite lb and finite ub, to_canonical_form()    *)
(* adds exactly one constraint, with bounds (-infinity, ub - lb] and the   *)
(* single coefficient 1 on that variable.  Stated for the models without   *)
(* upper-bounded-only variables.                                           *)
(***************************************************************************)
C6_DoubleBoundedConstraint ==
    (Canonicalized /\ ~IsDense(this) /\ FiniteArithmetic(this))
    => /\ lpv.n_con = this.n_con
            + Cardinality({v \in 0..(this.n_var - 1) : DoubleBounded(this, v)})
       /\ \A v \in 0..(this.n_var - 1) :
             DoubleBounded(this, v) =>
                LET r == AddedCon(this, v)
                IN  /\ At(lpv.con_lb, r) = RNeg(inf)
                    /\ At(lpv.con_ub, r) = RSub(At(this.var_ub, v), At(this.var_lb, v))
                    /\ Cardinality(RowEntries(lpv, r)) = 1
                    /\ \A k \in RowEntries(lpv, r) :
                          lpv.con_coeff[k].col = v /\ lpv.con_coeff[k].val = R(1)

\* what the substitution x* = ub - x adds to a finite bound of row r
UpperShift(o, r, v) ==
    SumTo([k \in 1..Len(o.con_coeff) |->
              IF o.con_coeff[k].row = r /\ o.con_coeff[k].col = v
              THEN RNeg(RMul(o.con_coeff[k].val, At(o.var_ub, v)))
              ELSE R(0)],
          Len(o.con_coeff))

Shifted(before, after, delta) ==
    IF IsFinite(before) THEN after = RAdd(before, delta) ELSE after = before

(***************************************************************************)
(* C7: for a variable with lb = -infinity and finite ub, the canonical     *)
(* form records the transform (none, -1, ub), negates the objective        *)
(* coefficient and the constraint coefficients of that variable and of no  *)
(* other, and adds -coefficient * ub to the finite bounds of the           *)
(* constraints it appears in.  Stated for the models in one variable.      *)
(***************************************************************************)
C7_UpperOnlySubstitution ==
    (Canonicalized /\ ~IsDense(this) /\ this.n_var = 1 /\ UpperOnly(this, 0))
    => /\ lpv.var_transform = << <<-1, R(-1), At(this.var_ub, 0)>> >>
       /\ lpv.obj_coeff = <<RNeg(At(this.obj_coeff, 0))>>
       /\ lpv.n_var = 1 /\ lpv.n_con = this.n_con
       /\ Len(lpv.con_coeff) = Len(this.con_coeff)
       /\ \A k \in 1..Len(this.con_coeff) :
             lpv.con_coeff[k] = MatrixEntry(this.con_coeff[k].row,
                                            this.con_coeff[k].col,
                                            RNeg(this.con_coeff[k].val))
       /\ \A r \in 0..(this.n_con - 1) :
             /\ Shifted(At(this.con_lb, r), At(lpv.con_lb, r), UpperShift(this, r, 0))
             /\ Shifted(At(this.con_ub, r), At(lpv.con_ub, r), UpperShift(this, r, 0))

canonical_form_shape(o) ==
    /\ ~o.maximize
    /\ \A v \in 1..NVars(o) : o.var_lb[v] = R(0) /\ o.var_ub[v] = inf
    /\ \A c \in 1..NCons(o) :
          /\ o.con_lb[c] = o.con_ub[c]
          /\ IsFinite(o.con_lb[c])
          /\ RLeq(R(0), o.con_lb[c])

StoredCoeff(o, con, var) ==
    LET k == FirstEntry(o.con_coeff, con, var)
    IN  IF k = 0 THEN R(0) ELSE o.con_coeff[k].val

NoZeroEntries(o) == \A k \in 1..Len(o.con_coeff) : o.con_coeff[k].val # R(0)

SetConCoeffStep == ret'.op = "set_con_coeff" /\ this'.con_coeff # this.con_coeff

(***************************************************************************)
(* C9: the coefficient store never holds two entries for one (constraint,  *)
(* variable) pair nor an entry of value zero; set_con_coeff(con, var, v,   *)
(* false) makes the stored coefficient v, set_con_coeff(con, var, v, true) *)
(* makes it the previous coefficient (0 if none) plus v.                   *)
(***************************************************************************)
C9_CoefficientStore ==
    /\ [](NoDuplicates(this) /\ NoZeroEntries(this))
    /\ [][SetConCoeffStep =>
            LET con == ret'.info[1]
                var == ret'.info[2]
                v   == ret'.info[3]
                add == ret'.info[4]
            IN  StoredCoeff(this', con, var)
                   = (IF add THEN RAdd(StoredCoeff(this, con, var), v) ELSE v)]_vars

MakeConStep == ret'.op = "make_con" /\ (ret' # ret \/ this' # this)

SameModel(o, e) ==
    /\ o.var_lb = e.var_lb /\ o.var_ub = e.var_ub
    /\ o.con_lb = e.con_lb /\ o.con_ub = e.con_ub
    /\ o.obj_coeff = e.obj_coeff /\ o.con_coeff = e.con_coeff
    /\ o.maximize = e.maximize
    /\ o.n_var = e.n_var /\ o.n_con = e.n_con
    /\ o.var_transform = e.var_transform

(***************************************************************************)
(* C11: for an exact-rational model built incrementally (n_var > 0 when    *)
(* solve() is entered), var_lb, var_ub, con_lb, con_ub, obj_coeff,         *)
(* con_coeff, maximize, n_var, n_con and var_transform are the same after  *)
(* solve() as before it, however solve() ends.                             *)
(***************************************************************************)
C11_SolveFrame ==
    (SolveEnded /\ this.is_rat /\ hist.entry.n_var > 0) => SameModel(this, hist.entry)

\* solve() has returned true on an incrementally built model with a
\* variable to shift, a constraint and a coefficient, and has written x
C11_Witness ==
    /\ Returned(TRUE) /\ this.is_rat /\ hist.entry.n_var > 0
    /\ hist.entry.var_lb[1] = R(-5)
    /\ Len(hist.entry.con_coeff) > 0
    /\ hist.entry.x = <<>> /\ this.x # <<>>

(***************************************************************************)
(* C12: when solve() is entered on a model in dense form with n_var = 0,   *)
(* n_var and n_con have their values of entry again when solve() returns   *)
(* (with any status) and when it throws 'not supported'.                   *)
(***************************************************************************)
C12_CountersRestored ==
    (SolveEnded /\ IsDense(hist.entry) /\ hist.entry.n_var = 0
        /\ \/ ret.out = "return"
           \/ ret.out = "throw" /\ ret.info = <<"not supported">>)
    => /\ this.n_var = hist.entry.n_var
       /\ this.n_con = hist.entry.n_con

(***************************************************************************)
(* C13: in every state reached by calls of make_var, make_con,             *)
(* set_obj_coeff, set_con_coeff and solve in which no solve() has returned *)
(* true (status optimal), optimum() throws 'no solution'; models in dense  *)
(* form (n_var = 0) included.                                              *)
(***************************************************************************)
C13_NoSolution ==
    (pc \in {"idle", "done"} /\ ~hist.optimal) => optimum_no_solution(this)

(***************************************************************************)
(* C14: the status glpk() stores is a function of the codes of the         *)
(* backend.  Simplex methods: primal status OPT gives optimal; otherwise   *)
(* primal NOFEAS or return code ENOPFS gives infeasible; otherwise primal  *)
(* UNBND gives unbounded; otherwise dual NOFEAS or return code ENODFS      *)
(* gives infeasible_or_unbounded; otherwise error.  Interior point: OPT    *)
(* gives optimal, NOFEAS gives infeasible_or_unbounded, anything else      *)
(* error.  glpk() returns true exactly when the status is optimal and x is *)
(* written only then.                                                      *)
(***************************************************************************)
SimplexCodes(r, s, d) ==
    /\ s = "GLP_OPT" => this.status = "optimal"
    /\ (s # "GLP_OPT" /\ (s = "GLP_NOFEAS" \/ r = "GLP_ENOPFS"))
        => this.status = "infeasible"
    /\ (s = "GLP_UNBND" /\ r # "GLP_ENOPFS") => this.status = "unbounded"
    /\ (s \notin { "GLP_OPT", "GLP_NOFEAS", "GLP_UNBND" } /\ r # "GLP_ENOPFS"
            /\ (d = "GLP_NOFEAS" \/ r = "GLP_ENODFS"))
        => this.status = "infeasible_or_unbounded"
    /\ (s \notin { "GLP_OPT", "GLP_NOFEAS", "GLP_UNBND" } /\ d # "GLP_NOFEAS"
            /\ r \notin { "GLP_ENOPFS", "GLP_ENODFS" })
        => this.status = "error"

InteriorCodes(s) ==
    /\ s = "GLP_OPT" => this.status = "optimal"
    /\ s = "GLP_NOFEAS" => this.status = "infeasible_or_unbounded"
    /\ s \notin { "GLP_OPT", "GLP_NOFEAS" } => this.status = "error"

C14_StatusNormalization ==
    /\ (pc = "glpk_solved" /\ this.method # "interior")
        => SimplexCodes(glp.glp_res, glp.glp_status, glp.glp_dual_st)
    /\ (pc = "glpk_solved" /\ this.method = "interior")
        => InteriorCodes(glp.glp_status)
    /\ (pc = "glpk_solved" /\ this.status # "optimal") => this.x = hist.entry.x
    /\ (SolveEnded /\ ~this.is_rat /\ ret.out = "return")
        => /\ ret.val = TRUE <=> this.status = "optimal"
           /\ this.status # "optimal" => this.x = hist.entry.x

C14_Witness ==
    /\ pc = "glpk_solved"
    /\ this.method = "simplex_dual"
    /\ glp.glp_status = "GLP_UNBND" /\ glp.glp_res = "GLP_ENOPFS"
    /\ glp.glp_dual_st = "GLP_NOFEAS"
    /\ this.status = "infeasible"
    /\ hist.entry.x # <<>> /\ this.x = hist.entry.x

(***************************************************************************)
(* C15: solve() rejects an unsupported configuration with an error and     *)
(* does not run the backend on it: a floating-point model with method =    *)
(* interior and glp_presolve = true, and a rat model with a method other   *)
(* than simplex_primal.                                                    *)
(***************************************************************************)
Unsupported(o) ==
    \/ ~o.is_rat /\ o.method = "interior" /\ o.glp_presolve
    \/ o.is_rat /\ o.method # "simplex_primal"

C15_UnsupportedRejected ==
    Unsupported(this)
    => /\ pc # "glpk_solved"
       /\ SolveEnded => ret.out = "throw"

(***************************************************************************)
(* C16: the problem glpk() creates is deleted and the environment of the   *)
(* backend released before control leaves glpk(), on every exit: normal    *)
(* return with any status, and a call of the backend that throws between   *)
(* creation and cleanup.  Hence whenever control is outside glpk() no      *)
(* problem is alive and the environment is not held.                       *)
(***************************************************************************)
C16_BackendReleased ==
    pc \notin GlpkStages => (glp.live = 0 /\ ~glp.env)

(***************************************************************************)
(* C17: when phase 1 ends with every artificial variable at 0, the costs   *)
(* of the basis for phase 2 are c(j) for a real variable j < n and 0 for   *)
(* an artificial variable (index >= n, the index n included), and c is     *)
(* never read outside 0..n-1.                                              *)
(***************************************************************************)
PhaseOneEnds ==
    /\ pc = "loop"
    /\ sx.phase_one /\ sx.entering = -1
    /\ ~artificial_positive(lp, sx)

ExpectedPhaseTwoCost(i) ==
    IF sx.basic[i] >= lp.n_var THEN R(0) ELSE At(lp.obj_coeff, sx.basic[i])

C17_PhaseTwoCosts ==
    [][PhaseOneEnds
        => /\ reads_past_c(lp, sx) = {}
           /\ pc' = "loop" /\ ~sx'.phase_one
           /\ \A i \in 1..lp.n_con : sx'.cB[i] = ExpectedPhaseTwoCost(i)]_vars

(***************************************************************************)
(* C18: at the start of every iteration of simplex() the entries of basic  *)
(* are pairwise distinct and is_basic(j) = 1 exactly when j occurs in      *)
(* basic.                                                                  *)
(***************************************************************************)
InBasis(j) == \E i \in 1..Len(sx.basic) : sx.basic[i] = j

C18_BasisFlags ==
    pc = "loop"
    => /\ \A i, k \in 1..Len(sx.basic) : sx.basic[i] = sx.basic[k] => i = k
       /\ \A j \in 0..(Len(sx.is_basic) - 1) :
            At(sx.is_basic, j) = 1 <=> InBasis(j)

(***************************************************************************)
(* C19: simplex() run on a model in canonical form in which every pivot    *)
(* has a positive minimum ratio terminates, with status set to exactly one *)
(* of optimal, infeasible and unbounded.  Termination is stated as a bound *)
(* on the number of times the loop goes round: the loop never reaches      *)
(* MaxIter rounds, and the call ends by returning with one of the three    *)
(* statuses.                                                               *)
(***************************************************************************)
SimplexEnded ==
    /\ SolveEnded /\ this.is_rat /\ this.method = "simplex_primal"
    /\ ~(ret.out = "throw" /\ ret.info = <<"invalid size">>)

C19_SimplexTerminates ==
    ~hist.degenerate
    => /\ pc = "loop" => hist.iter < MaxIter
       /\ SimplexEnded
            => /\ ret.out = "return"
               /\ this.status \in { "optimal", "infeasible", "unbounded" }

====
